---- MODULE Spec2Model ----
(***************************************************************************)
(* Zen Engine (Study-Noise-App): the App component's audio control path    *)
(* (src/src/App.jsx) and the noise processor (audio/noiseGenerator,        *)
(* src/unnamed/part_000).                                                  *)
(*                                                                         *)
(* Number representation.  Every tunable (gain, Hz, mod depth) is kept in  *)
(* hundredths: 0.12 is 12, 350 Hz is 35000.  Samples and accumulators are  *)
(* fixed-point with One = 1.0; products are truncated by \div.             *)
(* Time is counted in ticks of 50 ms: the 100 ms setTimeout is QuietTicks  *)
(* ticks of wall-clock time, the audio clock (ctx.currentTime) advances    *)
(* one tick per wall tick while the context is running and not at all      *)
(* while it is suspended.                                                  *)
(***************************************************************************)
EXTENDS Integers, Sequences, FiniteSets, TLC

VARIABLES
  harness,         \* "ui": handlers driven by the rendered DOM; "api": called directly;
                   \* "direct": as "ui", but handleParamChange is called directly;
                   \* "processor": a noise processor alone, run sample by sample
  playing,         \* useState(false)
  noiseType,       \* useState("white")
  rainActive,      \* useState(false)
  customSettings,  \* useState({gain .15, hp 300, lp 1000, mod 150})
  audioRef,        \* useRef(null): Null or the engine record
  timers,          \* pending setTimeout callbacks of changeNoise, oldest first
  toggles,         \* togglePlay calls awaiting ctx.resume()/ctx.suspend(), oldest first
  built,           \* history: how often initAudio has built the graph
  whiteTwin,       \* history: the generator of the run in which custom is requested as white
  accAtSuspend,    \* history: accumulators at the last completed suspend, Null once resumed
  last,            \* history: what the latest handler step did
  nBlocks,         \* audio blocks processed so far
  nOps,            \* user events handled so far
  node,            \* the processor run alone: its noiseType, b0..b6, lastOut
  written,         \* its latest iteration: white, the sample written, the state before
  nSamples         \* iterations of its sample loop so far

vars == <<harness, playing, noiseType, rainActive, customSettings, audioRef, timers,
          toggles, built, whiteTwin, accAtSuspend, last, nBlocks, nOps, node,
          written, nSamples>>

\* null and undefined are records, so that they compare with records
Null == [null |-> TRUE]
Undefined == [undefined |-> TRUE]

\* ------------------------------------------------------------------ bounds
MaxOps == 3      \* user events (clicks, selections, slider moves) in a run
MaxBlocks == 2   \* audio blocks in a run
BlockLen == 1    \* samples of an output buffer
MaxSamples == 18 \* counted iterations of the sample loop of a processor run alone

\* --------------------------------------------------------------- constants
One == 10000
QuietTicks == 2

Min(a, b) == IF a < b THEN a ELSE b
Max(a, b) == IF a > b THEN a ELSE b

\* ------------------------------------------------ noise processor (part_000)
Whites == {-One, One}

NewProcessor ==
  [noiseType |-> "white", b |-> <<0, 0, 0, 0, 0, 0, 0>>, lastOut |-> 0]

\* (c * bk) \div 100000, with the product split so that it stays within 32 bits
Scaled(c, bk) == (c * (bk \div 10000) + (c * (bk % 10000)) \div 10000) \div 10

\* bk = c * bk + white * w, with c and w given in 1e-5 (w rounded to 5 decimals)
Band(c, bk, w, white) == Scaled(c, bk) + (white * w) \div 100000

\* a branch that restarts the other algorithms cold
OthersCleared(p) == [NewProcessor EXCEPT !.noiseType = p.noiseType]

\* the closure variables a branch of the sample loop does not assign
OthersKept(p) == p

\* b6 overwritten before the output statement
B6UpdatedFirst(old, new) == new

\* the b6 the output statement reads: out[i] is assigned before b6
B6AtOutput(old, new) == old

\* an integrator without the leak: lastOut = lastOut + 0.02 * white
BrownNoLeak(lastOut, white) == lastOut + (2 * white) \div 100

\* lastOut = (lastOut + 0.02 * white) / 1.02
Brown(lastOut, white) == (100 * lastOut + 2 * white) \div 102

\* one iteration of the sample loop: <<processor after, out[i]>>
SampleStep(p, white) ==
  IF p.noiseType = "white" THEN <<OthersKept(p), (white * 2) \div 10>>
  ELSE IF p.noiseType = "pink" THEN
    LET b0 == Band(99886, p.b[1], 5552, white)
        b1 == Band(99332, p.b[2], 7508, white)
        b2 == Band(96900, p.b[3], 15385, white)
        b3 == Band(86650, p.b[4], 31049, white)
        b4 == Band(55000, p.b[5], 53295, white)
        b5 == Band(-76160, p.b[6], -1690, white)
        b6 == (white * 11593) \div 100000
        out == ((b0 + b1 + b2 + b3 + b4 + b5 + B6AtOutput(p.b[7], b6)
                 + (white * 5362) \div 10000) * 15) \div 100
    IN <<[OthersKept(p) EXCEPT !.b = <<b0, b1, b2, b3, b4, b5, b6>>], out>>
  ELSE IF p.noiseType = "brown" THEN
    LET lo == Brown(p.lastOut, white)
    IN <<[OthersKept(p) EXCEPT !.lastOut = lo], (lo * 35) \div 10>>
  ELSE <<p, 0>>

RECURSIVE ProcessBlock(_, _)
\* onaudioprocess over the white samples ws: <<processor after, output block>>
ProcessBlock(p, ws) ==
  IF ws = <<>> THEN <<p, <<>>>>
  ELSE LET first == SampleStep(p, Head(ws))
           rest == ProcessBlock(first[1], Tail(ws))
       IN <<rest[1], <<first[2]>> \o rest[2]>>

\* a setType that also clears the accumulators
setTypeResetting(p, type) == [NewProcessor EXCEPT !.noiseType = type]

setType(p, type) == [p EXCEPT !.noiseType = type]

\* -------------------------------------------------- strings and parseFloat
DigitChars == <<"0", "1", "2", "3", "4", "5", "6", "7", "8", "9">>

DigitOf(ch) == (CHOOSE i \in 1..10 : DigitChars[i] = ch) - 1

IsDigit(ch) == \E i \in 1..10 : DigitChars[i] = ch

RECURSIVE NatToString(_)
\* decimal digits of a natural number
NatToString(n) ==
  IF n < 10 THEN <<DigitChars[n + 1]>>
  ELSE NatToString(n \div 10) \o <<DigitChars[(n % 10) + 1]>>

\* String(x) of a number x given in hundredths: "300", "0.15", "0.5", "-50"
NumToString(h) ==
  LET m == IF h < 0 THEN -h ELSE h
      f == m % 100
      frac == IF f = 0 THEN <<>>
              ELSE IF f % 10 = 0 THEN <<".", DigitChars[(f \div 10) + 1]>>
              ELSE <<".", DigitChars[(f \div 10) + 1], DigitChars[(f % 10) + 1]>>
  IN (IF h < 0 THEN <<"-">> ELSE <<>>) \o NatToString(m \div 100) \o frac

RECURSIVE DigitRun(_)
\* the longest prefix of s made of digits
DigitRun(s) ==
  IF s = <<>> \/ ~IsDigit(Head(s)) THEN <<>> ELSE <<Head(s)>> \o DigitRun(Tail(s))

RECURSIVE DigitsValue(_)
DigitsValue(ds) ==
  IF ds = <<>> THEN 0
  ELSE 10 * DigitsValue(SubSeq(ds, 1, Len(ds) - 1)) + DigitOf(ds[Len(ds)])

\* parseFloat(s) in hundredths (decimals beyond the second are dropped), for
\* s a numeral as the range inputs and String(number) produce them
parseFloat(s) ==
  LET neg == s # <<>> /\ Head(s) = "-"
      u == IF neg THEN Tail(s) ELSE s
      ip == DigitRun(u)
      afterInt == SubSeq(u, Len(ip) + 1, Len(u))
      fp == IF afterInt # <<>> /\ Head(afterInt) = "." THEN DigitRun(Tail(afterInt)) ELSE <<>>
      d1 == IF Len(fp) >= 1 THEN DigitOf(fp[1]) ELSE 0
      d2 == IF Len(fp) >= 2 THEN DigitOf(fp[2]) ELSE 0
      mag == 100 * DigitsValue(ip) + 10 * d1 + d2
  IN IF neg THEN -mag ELSE mag

\* ------------------------------------------------------- App.jsx: React state
Keys == {"gain", "hp", "lp", "mod"}

Options == {"white", "pink", "brown", "custom"}

InitialCustomSettings == [gain |-> 15, hp |-> 30000, lp |-> 100000, mod |-> 15000]

\* the range inputs of the parameter list: min, max and step of each key
Sliders ==
  [lp   |-> [min |-> 20000, max |-> 300000, step |-> 1000],
   hp   |-> [min |-> 2000,  max |-> 120000, step |-> 1000],
   mod  |-> [min |-> 0,     max |-> 80000,  step |-> 1000],
   gain |-> [min |-> 0,     max |-> 50,     step |-> 1]]

\* a range input that hands the requested position on as it is
RangeValueUnclamped(key, raw) == raw

\* value sanitization of <input type="range">: clamp to [min, max], then snap
\* to the nearest step counted from min
RangeValue(key, raw) ==
  LET sl == Sliders[key]
      c == Max(sl.min, Min(sl.max, raw))
      snapped == sl.min + ((c - sl.min + sl.step \div 2) \div sl.step) * sl.step
  IN Min(snapped, sl.max - ((sl.max - sl.min) % sl.step))

\* e.target.value of the slider of key when the user asks for position raw
SliderValue(key, raw) == NumToString(RangeValue(key, raw))

getActiveParams(type, cs) ==
  LET presets == [white  |-> [gain |-> 12, hp |-> 35000, lp |-> 110000, mod |-> 8000],
                  pink   |-> [gain |-> 12, hp |-> 50000, lp |-> 80000,  mod |-> 10000],
                  brown  |-> [gain |-> 25, hp |-> 25000, lp |-> 60000,  mod |-> 15000],
                  custom |-> cs]
  IN IF type \in DOMAIN presets THEN presets[type] ELSE Undefined

\* AudioParam.setTargetAtTime(target, ctx.currentTime, tau) on the master gain.
\* elapsed counts the audio-clock ticks a fade (target 0, tau 0.05 s) has been
\* running, up to the quiet period; repeating the same call continues the same curve.
\* quiet says whether the current value is within epsilon of 0.
SetGainTarget(g, target, tau) ==
  IF g.target = target /\ g.tau = tau THEN g
  ELSE [target |-> target, tau |-> tau, elapsed |-> 0, quiet |-> g.quiet]

\* the master gain after one more tick of the audio clock: a fade (target 0,
\* tau 0.05 s) is within epsilon of 0 after the quiet period, a ramp to a
\* non-zero target has left 0
GainAfterTick(g) ==
  LET fade == g.target = 0 /\ g.tau = 5
      e == IF fade THEN Min(QuietTicks, g.elapsed + 1) ELSE g.elapsed
  IN [g EXCEPT !.elapsed = e,
               !.quiet = IF fade THEN g.quiet \/ e >= QuietTicks
                         ELSE IF g.target = 0 THEN g.quiet
                         ELSE FALSE]

\* params.gain of an undefined params raises a TypeError before any node is touched
TuningThrows(type, settings, cs) ==
  settings = Undefined /\ getActiveParams(type, cs) = Undefined

applyNoiseTuning(a, type, settings, cs) ==
  IF a = Null \/ TuningThrows(type, settings, cs) THEN a
  ELSE LET params == IF settings # Undefined THEN settings ELSE getActiveParams(type, cs)
       IN [a EXCEPT !.gain = SetGainTarget(a.gain, params.gain, 20),
                    !.highpass = params.hp,
                    !.lowpass = params.lp,
                    !.lfoGain = params.mod]

\* ------------------------------------------------------- App.jsx: handlers
\* the state a new AudioContext is in once the constructing handler has
\* returned: running when the browser allows it to start, else suspended
ContextStartStates == {"running", "suspended"}

Targets(a) ==
  [gain |-> a.gain.target, hp |-> a.highpass, lp |-> a.lowpass, mod |-> a.lfoGain]

Acc(p) == [b |-> p.b, lastOut |-> p.lastOut]

\* the body of initAudio past its guard: a new context in state start, the
\* nodes with their initial values, then applyNoiseTuning(audioRef.current, noiseType)
BuildGraph(start) ==
  applyNoiseTuning(
    [ctx      |-> [state |-> start],
     gain     |-> [target |-> 0, tau |-> 0, elapsed |-> 0, quiet |-> TRUE],
     noise    |-> NewProcessor,
     rainGain |-> IF rainActive THEN 8 ELSE 0,
     highpass |-> 35000,
     lowpass  |-> 35000,
     lfoGain  |-> 100],
    noiseType, Undefined, customSettings)

\* an initAudio without the audioRef.current guard
initAudioUnguarded(start) == [engine |-> BuildGraph(start), fresh |-> TRUE]

\* initAudio(): the engine record, and whether this call built it
initAudio(start) ==
  IF audioRef # Null THEN [engine |-> audioRef, fresh |-> FALSE]
  ELSE [engine |-> BuildGraph(start), fresh |-> TRUE]

\* the customSettings of the render whose closure the delayed callback keeps;
\* getActiveParams reads them for custom only
Captured(type) == IF type = "custom" THEN customSettings ELSE Undefined

\* a start button that resumes whatever the playing flag says
AlwaysResume(isPlaying) == "resume"

\* if (!playing) resume else suspend
PlayRequest(isPlaying) == IF ~isPlaying THEN "resume" ELSE "suspend"

\* the requested type handed to setType as it is
PassThrough(type) == type

\* setType(type === 'custom' ? 'white' : type)
AlgorithmOf(type) == IF type = "custom" THEN "white" ELSE type

\* the newest pending timeout first
NewestFirst(ts) == Len(ts)

\* which pending timeout the event loop runs next: equal delays run in the
\* order they were set
NextTimer(ts) == 1

\* the option values the select can deliver to onChange / a direct caller can pass
Selectable ==
  IF harness = "api" THEN Options \cup {"bogus"} ELSE Options \ {noiseType}

\* a handleParamChange that retargets whatever the active type is
ParamChangeAppliesAlways == audioRef # Null

\* if (audioRef.current && noiseType === "custom")
ParamChangeApplies == audioRef # Null /\ noiseType = "custom"

\* whether a slider can deliver a change event
SliderEnabled == harness # "ui" \/ noiseType = "custom"

\* raw positions tried on each slider: below min, above max
RawValues ==
  [lp   |-> {10000, 500000},
   hp   |-> {0, 200000},
   mod  |-> {-5000, 90000},
   gain |-> {-10, 80}]

\* the keys handleParamChange is called with: every slider's, or the gain
\* slider's alone where the handler is called directly (the handler treats
\* every key alike)
CallableKeys == IF harness = "direct" THEN {"gain"} ELSE Keys

\* the values it is called with: both ends of a slider, or one value of a direct call
CallableValues(key) ==
  IF harness = "direct"
  THEN {CHOOSE v \in RawValues[key] : \A w \in RawValues[key] : w <= v}
  ELSE RawValues[key]

\* the string handed to handleParamChange
DeliveredValue(key, raw) ==
  IF harness = "ui" THEN SliderValue(key, raw) ELSE NumToString(raw)

\* blocks requested whatever the state of the context
RenderingWhileSuspended == audioRef # Null

\* onaudioprocess is called while the context is running
Rendering == audioRef # Null /\ audioRef.ctx.state = "running"

\* the history record of the latest handler step
Did(op, tag) == [op |-> op, tag |-> tag]

Idle == Did("none", "")

TypeOK ==
  /\ harness \in {"ui", "api", "direct", "processor"}
  /\ playing \in BOOLEAN
  /\ rainActive \in BOOLEAN
  /\ noiseType \in Options
  /\ nOps \in 0..MaxOps
  /\ nBlocks \in 0..MaxBlocks
  /\ built \in 0..2
  /\ nSamples \in 0..MaxSamples
  /\ node.noiseType \in {"white", "pink", "brown"}

InitWith(h) ==
  /\ harness = h
  /\ playing = FALSE
  /\ noiseType = "white"
  /\ rainActive = FALSE
  /\ customSettings = InitialCustomSettings
  /\ audioRef = Null
  /\ timers = <<>>
  /\ toggles = <<>>
  /\ built = 0
  /\ whiteTwin = NewProcessor
  /\ accAtSuspend = Null
  /\ last = Idle
  /\ nBlocks = 0
  /\ nOps = 0
  /\ node = NewProcessor
  /\ written = Null
  /\ nSamples = 0

Init == InitWith("ui")

InitApi == InitWith("api")

InitDirect == InitWith("direct")

InitProcessor == InitWith("processor")

\* togglePlay() up to its await of ctx.resume() / ctx.suspend()
TogglePlay ==
  /\ nOps < MaxOps
  /\ nOps' = nOps + 1
  /\ \E start \in ContextStartStates :
       LET r == initAudio(start) IN
         /\ audioRef' = r.engine
         /\ built' = Min(2, built + (IF r.fresh THEN 1 ELSE 0))
         /\ toggles' = Append(toggles, PlayRequest(playing))
         /\ last' = Did("togglePlay", IF r.fresh THEN "built" ELSE "")
  /\ UNCHANGED <<node, written, nSamples>>
  /\ UNCHANGED <<harness, playing, noiseType, rainActive, customSettings, timers,
                 whiteTwin, accAtSuspend, nBlocks>>

\* the awaited promise of the oldest togglePlay settles; setPlaying
ToggleSettles ==
  /\ toggles # <<>>
  /\ LET op == Head(toggles) IN
       /\ audioRef' = [audioRef EXCEPT !.ctx.state =
                         IF op = "resume" THEN "running" ELSE "suspended"]
       /\ playing' = (op = "resume")
       /\ accAtSuspend' = IF op = "resume" THEN Null ELSE Acc(audioRef.noise)
       /\ last' = Did(op, IF playing THEN "wasPlaying" ELSE "wasStopped")
  /\ toggles' = Tail(toggles)
  /\ UNCHANGED <<node, written, nSamples>>
  /\ UNCHANGED <<harness, noiseType, rainActive, customSettings, timers, built,
                 whiteTwin, nBlocks, nOps>>

\* changeNoise(type) up to setTimeout
ChangeNoise ==
  /\ nOps < MaxOps
  /\ nOps' = nOps + 1
  /\ \E type \in Selectable, start \in ContextStartStates :
       LET r == initAudio(start)
           a == r.engine
       IN
         /\ audioRef' = [a EXCEPT !.gain = SetGainTarget(a.gain, 0, 5)]
         /\ built' = Min(2, built + (IF r.fresh THEN 1 ELSE 0))
         /\ timers' = Append([k \in 1..Len(timers) |-> [timers[k] EXCEPT !.latest = FALSE]],
                             [type |-> type, settings |-> Captured(type),
                              remaining |-> QuietTicks, latest |-> TRUE,
                              supersedes |-> timers # <<>> /\ timers[Len(timers)].type # type])
         /\ last' = Did("changeNoise", IF r.fresh THEN "built" ELSE "")
  /\ UNCHANGED <<node, written, nSamples>>
  /\ UNCHANGED <<harness, playing, noiseType, rainActive, customSettings, toggles,
                 whiteTwin, accAtSuspend, nBlocks>>

\* the delayed callback of changeNoise
TimerFires ==
  /\ timers # <<>>
  /\ LET i == NextTimer(timers)
         t == timers[i]
         a == [audioRef EXCEPT !.noise = setType(audioRef.noise, AlgorithmOf(t.type))]
         threw == TuningThrows(t.type, Undefined, t.settings)
     IN
       /\ t.remaining = 0
       /\ audioRef' = applyNoiseTuning(a, t.type, Undefined, t.settings)
       /\ noiseType' = IF threw THEN noiseType ELSE t.type
       /\ whiteTwin' = setType(whiteTwin, AlgorithmOf(IF t.type = "custom" THEN "white"
                                                        ELSE t.type))
       /\ timers' = [k \in 1..(Len(timers) - 1) |-> IF k < i THEN timers[k] ELSE timers[k + 1]]
       /\ last' = [op |-> "timer", tag |-> IF threw THEN "threw" ELSE "", timer |-> t,
                   sameType |-> audioRef.noise.noiseType = AlgorithmOf(t.type),
                   quiet |-> audioRef.gain.quiet, gainTarget |-> audioRef.gain.target]
  /\ UNCHANGED <<node, written, nSamples>>
  /\ UNCHANGED <<harness, playing, rainActive, customSettings, toggles, built,
                 accAtSuspend, nBlocks, nOps>>

\* handleParamChange(key, val)
HandleParamChange ==
  /\ SliderEnabled
  /\ nOps < MaxOps
  /\ nOps' = nOps + 1
  /\ \E key \in CallableKeys : \E raw \in CallableValues(key) :
       LET newSettings == [customSettings EXCEPT ![key] = parseFloat(DeliveredValue(key, raw))]
       IN /\ customSettings' = newSettings
          /\ audioRef' = IF ParamChangeApplies
                         THEN applyNoiseTuning(audioRef, "custom", newSettings, customSettings)
                         ELSE audioRef
          /\ last' = [op |-> "handleParamChange", tag |-> key, raw |-> raw]
  /\ UNCHANGED <<node, written, nSamples>>
  /\ UNCHANGED <<harness, playing, noiseType, rainActive, timers, toggles, built,
                 whiteTwin, accAtSuspend, nBlocks>>

\* toggleRain()
ToggleRain ==
  /\ nOps < MaxOps
  /\ nOps' = nOps + 1
  /\ rainActive' = ~rainActive
  /\ audioRef' = IF audioRef # Null
                 THEN [audioRef EXCEPT !.rainGain = IF ~rainActive THEN 8 ELSE 0]
                 ELSE audioRef
  /\ last' = Did("toggleRain", "")
  /\ UNCHANGED <<node, written, nSamples>>
  /\ UNCHANGED <<harness, playing, noiseType, customSettings, timers, toggles, built,
                 whiteTwin, accAtSuspend, nBlocks>>

\* node.onaudioprocess of the main noise processor, one output buffer (the
\* rain processor is never retyped: it stays white and keeps no state)
AudioProcess ==
  /\ Rendering
  /\ nBlocks < MaxBlocks
  /\ \E ws \in [1..BlockLen -> Whites] :
       /\ audioRef' = [audioRef EXCEPT !.noise = ProcessBlock(audioRef.noise, ws)[1]]
       /\ whiteTwin' = ProcessBlock(whiteTwin, ws)[1]
  /\ nBlocks' = nBlocks + 1
  /\ last' = Did("onaudioprocess", "")
  /\ UNCHANGED <<node, written, nSamples>>
  /\ UNCHANGED <<harness, playing, noiseType, rainActive, customSettings, timers,
                 toggles, built, accAtSuspend, nOps>>

\* 50 ms pass: the timeouts come closer, the audio clock advances while running
Tick ==
  /\ timers' = [k \in 1..Len(timers) |->
                  [timers[k] EXCEPT !.remaining = Max(0, timers[k].remaining - 1)]]
  /\ audioRef' = IF Rendering
                 THEN [audioRef EXCEPT !.gain = GainAfterTick(audioRef.gain)]
                 ELSE audioRef
  /\ timers' # timers \/ audioRef' # audioRef
  /\ UNCHANGED <<node, written, nSamples>>
  /\ UNCHANGED <<harness, playing, noiseType, rainActive, customSettings, toggles,
                 built, whiteTwin, accAtSuspend, last, nBlocks, nOps>>

Next ==
  \/ TogglePlay
  \/ ToggleSettles
  \/ ChangeNoise
  \/ TimerFires
  \/ HandleParamChange
  \/ ToggleRain
  \/ AudioProcess
  \/ Tick

Spec == Init /\ [][Next]_vars

SpecApi == InitApi /\ [][Next]_vars

SpecDirect == InitDirect /\ [][Next]_vars

\* ---------------------------------------------- the noise processor alone
app == <<harness, playing, noiseType, rainActive, customSettings, audioRef, timers,
         toggles, built, whiteTwin, accAtSuspend, last, nBlocks, nOps>>

\* setType(type) on the new processor, before its first block
SetType ==
  /\ nSamples = 0
  /\ \E type \in {"white", "pink", "brown"} : node' = setType(node, type)
  /\ node' # node
  /\ UNCHANGED <<written, nSamples>>
  /\ UNCHANGED app

\* one iteration of the sample loop of onaudioprocess; the count stops at
\* MaxSamples, where a pink run ends (its seven bands take new values with
\* every sample) while a white or brown run goes on for any number of samples
Sample ==
  /\ node.noiseType = "pink" => nSamples < MaxSamples
  /\ \E white \in Whites :
       LET step == SampleStep(node, white)
       IN /\ node' = step[1]
          /\ written' = [white |-> white, sample |-> step[2], before |-> node]
  /\ nSamples' = Min(nSamples + 1, MaxSamples)
  /\ UNCHANGED app

NextProcessor == SetType \/ Sample

SpecProcessor == InitProcessor /\ [][NextProcessor]_vars

\* ------------------------------------------------------------------ claims
ZeroAcc == Acc(NewProcessor)

IsTimerStep == Len(timers') < Len(timers)

IsToggleClick == Len(toggles') > Len(toggles)

IsToggleSettle == Len(toggles') < Len(toggles)

\* C1: when the last pending delayed callback has run, it was the one of the
\* latest request B, and the engine has settled on B: the generator's type
\* flag is B's algorithm (white for custom) and the four smoother targets are
\* B's parameters (the preset, or for custom the custom settings of the
\* request), whatever an earlier request A asked for.
C1_LastRequestWins ==
  (timers = <<>> /\ last.op = "timer") =>
    /\ last.timer.latest
    /\ audioRef.noise.noiseType = AlgorithmOf(last.timer.type)
    /\ Targets(audioRef) = getActiveParams(last.timer.type, last.timer.settings)

\* the callback of a request B that superseded a pending request for another
\* type has run and nothing is pending
C1_Witness ==
  timers = <<>> /\ last.op = "timer" /\ last.timer.supersedes /\ last.timer.latest

\* C2: at most one delayed retarget is pending at any time (a newer request
\* cancels the pending callback of an older one).
C2_AtMostOnePending == Len(timers) <= 1

\* C3: whenever a delayed callback calls setType, the master gain has come
\* within epsilon of 0 (the claim adds: and is still targeted at 0).
C3_SilentBeforeSetType == last.op = "timer" => last.quiet

\* C4: after the callback of a request for an unrecognized type, the generator
\* is white, the smoother targets are the White preset and nothing was thrown.
C4_InvalidTypeFallsBackToWhite ==
  (last.op = "timer" /\ last.timer.type \notin Options) =>
    /\ last.tag # "threw"
    /\ audioRef.noise.noiseType = "white"
    /\ Targets(audioRef) = getActiveParams("white", customSettings)

\* the documented ranges of the tunables, in hundredths
DocumentedRange ==
  [lp   |-> [lo |-> 20000, hi |-> 300000],
   hp   |-> [lo |-> 2000,  hi |-> 120000],
   mod  |-> [lo |-> 0,     hi |-> 80000],
   gain |-> [lo |-> 0,     hi |-> 50]]

InDocumentedRange(params) ==
  \A k \in Keys : DocumentedRange[k].lo <= params[k] /\ params[k] <= DocumentedRange[k].hi

C6_StartIdempotent ==
  (last.op \in {"resume", "suspend"} /\ last.tag = "wasPlaying") =>
    (audioRef.ctx.state = "running" /\ playing)

\* C6 amended: togglePlay toggles. A call on an existing engine requests a
\* suspend when playing is true and a resume when it is false, and changes
\* nothing of the engine by itself; when its request settles the context is
\* suspended with playing = false, or running with playing = true, and the
\* synthesis state and the smoother targets are as before.
C6_TogglePlayToggles ==
  [][ /\ (IsToggleClick /\ audioRef # Null) =>
           /\ audioRef' = audioRef
           /\ toggles'[Len(toggles')] = (IF playing THEN "suspend" ELSE "resume")
      /\ IsToggleSettle =>
           /\ audioRef'.noise = audioRef.noise
           /\ Targets(audioRef') = Targets(audioRef)
           /\ (Head(toggles) = "suspend" => audioRef'.ctx.state = "suspended" /\ ~playing')
           /\ (Head(toggles) = "resume" => audioRef'.ctx.state = "running" /\ playing')
    ]_vars

\* a second togglePlay, issued when the first had set playing, has completed
C6_Witness == last = Did("suspend", "wasPlaying") /\ ~playing

\* C7: the delayed callback's setType leaves b0..b6 and lastOut as they were.
C7_SetTypeKeepsAccumulators ==
  [][IsTimerStep => Acc(audioRef'.noise) = Acc(audioRef.noise)]_vars

\* setType was called with the type the generator already had, on non-zero
\* accumulators
C7_Witness ==
  last.op = "timer" /\ last.sameType /\ Acc(audioRef.noise) # ZeroAcc

\* C8: from a completed suspend until the next completed resume the
\* accumulators keep the values they had at the suspend, and no togglePlay
\* step writes the generator.
C8_SuspendKeepsSynthesisMemory ==
  /\ [](accAtSuspend # Null => Acc(audioRef.noise) = accAtSuspend)
  /\ [][(IsToggleClick \/ IsToggleSettle) /\ audioRef # Null
          => audioRef'.noise = audioRef.noise]_vars

\* suspended on non-zero accumulators, with blocks still to come
C8_Witness ==
  /\ accAtSuspend # Null
  /\ accAtSuspend # ZeroAcc
  /\ last.op = "suspend"
  /\ nBlocks < MaxBlocks

\* C9: the graph is built at most once, exactly when the engine first comes to
\* exist, which only a togglePlay or a changeNoise call brings about; the engine
\* then stays, and a later togglePlay or changeNoise call finds the context and
\* the noise processor, accumulators included, as they were.
C9_BuiltOnce ==
  /\ [](built = IF audioRef = Null THEN 0 ELSE 1)
  /\ [][(audioRef = Null /\ audioRef' # Null)
          => (IsToggleClick \/ Len(timers') > Len(timers))]_vars
  /\ [][audioRef # Null => audioRef' # Null]_vars
  /\ [][(audioRef # Null /\ (IsToggleClick \/ Len(timers') > Len(timers)))
          => (audioRef'.noise = audioRef.noise /\ audioRef'.ctx = audioRef.ctx)]_vars

\* a later handler called initAudio on an engine that already held synthesis state
C9_Witness ==
  /\ last.op \in {"togglePlay", "changeNoise"}
  /\ last.tag = ""
  /\ built = 1
  /\ Acc(audioRef.noise) # ZeroAcc

\* C10: the generator (type flag, b0..b6, lastOut) always equals the generator
\* of the run that requests white wherever this one requests custom.
C10_CustomIsWhite == audioRef # Null => audioRef.noise = whiteTwin

\* a block was processed under custom on accumulators that had left zero
C10_Witness ==
  /\ last.op = "onaudioprocess"
  /\ noiseType = "custom"
  /\ Acc(audioRef.noise) # ZeroAcc

IsParamChange == customSettings' # customSettings

IsChangeNoise == Len(timers') > Len(timers)

\* C11: a handleParamChange made while the active type is white, pink or brown
\* leaves the engine (targets and generator) and the pending callbacks as they
\* were and only stores the value under its key; a later request for custom
\* takes the stored settings along, and its callback makes them the targets.
C11_ParamChangeOnlyInCustom ==
  [][ /\ (IsParamChange /\ noiseType # "custom") =>
           /\ audioRef' = audioRef
           /\ timers' = timers
           /\ \E k \in Keys : customSettings' = [customSettings EXCEPT ![k] = customSettings'[k]]
      /\ (IsChangeNoise /\ timers'[Len(timers')].type = "custom") =>
           timers'[Len(timers')].settings = customSettings
      /\ (IsTimerStep /\ last'.timer.type = "custom") =>
           Targets(audioRef') = last'.timer.settings
    ]_vars

\* a value was stored while a preset was active on an existing engine, and the
\* callback of a later request for custom has made the stored settings the targets
C11_Witness ==
  /\ last.op = "timer"
  /\ last.timer.type = "custom"
  /\ customSettings # InitialCustomSettings
  /\ Targets(audioRef) = customSettings

\* C12: every sample a processor writes lies in [-1, 1], whichever of the white,
\* pink and brown algorithms is active and whatever the white inputs were.
C12_SamplesWithinUnit ==
  written # Null => written.sample \in -One..One

Abs(x) == IF x < 0 THEN -x ELSE x

\* C13: run from lastOut = 0 over white samples in [-1, 1], for any number of
\* samples, the brown integrator keeps |lastOut| <= 1 after every step, and
\* every brown sample has magnitude at most 3.5.
C13_BrownBounded ==
  node.noiseType = "brown" =>
    /\ Abs(node.lastOut) <= One
    /\ written # Null =>
          /\ node.lastOut = Brown(written.before.lastOut, written.white)
          /\ Abs(written.sample) <= (35 * One) \div 10

\* a brown run longer than the counted samples has brought lastOut to within
\* one percent of the bound
C13_Witness ==
  /\ node.noiseType = "brown"
  /\ written # Null
  /\ nSamples = MaxSamples
  /\ Abs(node.lastOut) >= One - One \div 100
  /\ Abs(written.sample) >= 3 * One

IsSample == written' # written

\* white * 0.115926
SeventhBand(white) == (white * 11593) \div 100000

\* C14: a pink sample is computed from the six bands already updated with the
\* current white value plus the b6 left by the previous pink sample (0.115926
\* times that sample's white value, 0 for the first pink sample); b6 is set to
\* 0.115926 times the current white value only afterwards.
C14_SeventhBandLast ==
  /\ [](  (node.noiseType = "pink" /\ written # Null) =>
            /\ written.sample =
                 ((node.b[1] + node.b[2] + node.b[3] + node.b[4] + node.b[5] + node.b[6]
                   + written.before.b[7] + (written.white * 5362) \div 10000) * 15) \div 100
            /\ node.b[7] = SeventhBand(written.white)
            /\ nSamples = 1 => written.before.b[7] = 0)
  /\ [][ (IsSample /\ node.noiseType = "pink" /\ written # Null) =>
            written'.before.b[7] = SeventhBand(written.white) ]_vars

\* a pink sample whose white value differs from the previous one's, so that the
\* b6 it was computed from is not the b6 it leaves behind
C14_Witness ==
  /\ node.noiseType = "pink"
  /\ nSamples >= 2
  /\ written.before.b[7] # 0
  /\ written.before.b[7] # node.b[7]

IsAudioProcess == nBlocks' > nBlocks

\* C15: a block of the active algorithm leaves the accumulators of the others as
\* they were (white: b0..b6 and lastOut; pink: lastOut; brown: b0..b6), and no
\* other step of the engine writes any accumulator, so a type selected again
\* finds the accumulators it left.
C15_InactiveStateUntouched ==
  [][ (audioRef # Null /\ audioRef' # Null) =>
        IF IsAudioProcess
        THEN /\ audioRef.noise.noiseType = "white" =>
                  Acc(audioRef'.noise) = Acc(audioRef.noise)
             /\ audioRef.noise.noiseType = "pink" =>
                  audioRef'.noise.lastOut = audioRef.noise.lastOut
             /\ audioRef.noise.noiseType = "brown" =>
                  audioRef'.noise.b = audioRef.noise.b
        ELSE Acc(audioRef'.noise) = Acc(audioRef.noise)
    ]_vars

\* after a pink block and a switch to brown, a brown block has run and the
\* pink bands are still there
C15_Witness ==
  /\ last.op = "onaudioprocess"
  /\ audioRef.noise.noiseType = "brown"
  /\ audioRef.noise.lastOut # 0
  /\ audioRef.noise.b # NewProcessor.b

IsControlOperation == nOps' > nOps

\* C16: while a delayed callback of changeNoise is pending and the master gain
\* is targeted at 0, no control operation (togglePlay, changeNoise, toggleRain,
\* handleParamChange) moves the target away from 0.
C16_QuietPeriodKept ==
  [][ (IsControlOperation /\ timers # <<>> /\ audioRef.gain.target = 0) =>
        audioRef'.gain.target = 0 ]_vars

\* C17: whenever the engine exists and no delayed callback is pending, the
\* generator's type flag is the algorithm of the displayed noiseType (white for
\* custom) and the four smoother targets are the parameters shown for it: the
\* preset, or for custom the current customSettings.
C17_EngineAgreesWithDisplay ==
  (audioRef # Null /\ timers = <<>>) =>
    /\ audioRef.noise.noiseType = AlgorithmOf(noiseType)
    /\ Targets(audioRef) = getActiveParams(noiseType, customSettings)

\* C18: whenever the engine exists and no togglePlay call is waiting for its
\* resume or suspend, the audio context is running if and only if playing is
\* true, whichever handler built the engine.
C18_RunningIffPlaying ==
  (audioRef # Null /\ toggles = <<>>) =>
    (audioRef.ctx.state = "running" <=> playing)
====
